---- MODULE Spec2Model ----
(***************************************************************************)
(* A model of SupabaseClient (chatbot/grannymail/db/supaclient.py): the    *)
(* remote tables and the storage bucket are the state, every public method *)
(* of the client is an action, and the variable last records the call that *)
(* completed last: its input, its outcome and the table it found.          *)
(***************************************************************************)
EXTENDS Naturals, Sequences, FiniteSets, TLC

VARIABLES users, messages, files, addresses, drafts, orders, attachments,
          changelog, system_messages, bucket, now, seq, pc, frame, last

vars == <<users, messages, files, addresses, drafts, orders, attachments,
          changelog, system_messages, bucket, now, seq, pc, frame, last>>

\* ------------------------------------------------------------------ bounds

\* Rows inserted (the changelog's included) and blobs uploaded in one run.
MaxRows == 3
\* The last second of the clock.
MaxClock == 2

\* ------------------------------------------------------------------ values

None == "None"
NoTime == 0
NoRow == [none |-> TRUE]
NoStatus == <<>>
NoFrame == [none |-> TRUE]

Emails == {"a@example.com", "b@example.com"}
Bodies == {"hi", "bye"}
Bytes == {"B1", "B2"}
MimeTypes == {"audio/ogg", "application/pdf", "image/png"}

\* The identifier the server gives the n-th row inserted into a table.
Id(prefix, n) == prefix \o ToString(n)
\* The identifiers the inputs name: those of the first two rows of a table.
IdsOf(prefix) == {Id(prefix, 1), Id(prefix, 2)}
\* An identifier the caller chose, which the server never assigns.
OwnId(prefix) == Id(prefix, 0)
UserIds == IdsOf("u")
MessageIds == IdsOf("m")
FileIds == IdsOf("f")
AddressIds == IdsOf("a")
DraftIds == IdsOf("d")
OrderIds == IdsOf("o")

\* ------------------------------------------------- entity classes (dbc)

UserFields == <<"user_id", "email">>
UserUnique == <<"user_id", "email">>
MessageFields == <<"message_id", "user_id", "timestamp", "message_body">>
MessageUnique == <<"message_id">>
FileFields == <<"file_id", "message_id", "mime_type", "blob_path">>
FileUnique == <<"file_id">>
AddressFields == <<"address_id", "user_id">>
AddressUnique == <<"address_id">>
DraftFields == <<"draft_id", "user_id", "created_at", "blob_path">>
DraftUnique == <<"draft_id">>
OrderFields == <<"order_id", "user_id", "draft_id", "address_id", "blob_path">>
OrderUnique == <<"order_id">>
AttachmentFields == <<"attachment_id", "draft_id">>
AttachmentUnique == <<"attachment_id">>

TimeFields == {"timestamp", "created_at"}
NoneOf(f) == IF f \in TimeFields THEN NoTime ELSE None

\* getattr(obj, f) is not None
Populated(obj, f) == obj[f] # NoneOf(f)

\* obj.to_dict(): the populated fields of the entity.
ToDict(obj) == [f \in {g \in DOMAIN obj : Populated(obj, g)} |-> obj[f]]

\* full.find_different_fields(update), in declaration order.
FindDifferentFields(fields, full, update) ==
    SelectSeq(fields, LAMBDA f : full[f] # update[f])

\* ------------------------------------------------------- remote table

\* .eq(key, val): an equality filter never matches a null.
Eq(r, key, val) == val # NoneOf(key) /\ r[key] = val

\* table.select("*").eq(key, val)
SelectEq(tbl, key, val) == {r \in tbl : Eq(r, key, val)}

\* table.delete().eq(key, val): the rows left.
DeleteEq(tbl, key, val) == {r \in tbl : ~Eq(r, key, val)}

\* table.update(d).eq(key, val)
Patch(r, d) == [f \in DOMAIN r |-> IF f \in DOMAIN d THEN d[f] ELSE r[f]]
UpdateEq(tbl, d, key, val) ==
    {IF Eq(r, key, val) THEN Patch(r, d) ELSE r : r \in tbl}

\* table.insert(d): the stored row, with the server's identifier and timestamp.
Materialize(fields, d, idField, id, timeField) ==
    [f \in {fields[i] : i \in 1..Len(fields)} |->
        IF f \in DOMAIN d THEN d[f]
        ELSE IF f = idField THEN id
        ELSE IF f = timeField THEN now
        ELSE NoneOf(f)]

\* The tables, and the bucket's table of objects.
Tables == {"users", "messages", "files", "addresses", "drafts", "orders",
           "attachments", "changelog", "objects"}

\* Rows inserted and blobs uploaded so far.
Inserted == seq["users"] + seq["messages"] + seq["files"] + seq["addresses"]
            + seq["drafts"] + seq["orders"] + seq["attachments"]
            + seq["changelog"] + seq["objects"]

\* The identifier of the next row of a table.
NextId(prefix, table) == Id(prefix, seq[table] + 1)

\* ------------------------------------------------------------ helpers

CheckDuplicatesFirstFieldOnly(tbl, unique, data) ==
    /\ unique[1] \in DOMAIN ToDict(data)
    /\ SelectEq(tbl, unique[1], data[unique[1]]) # {}

\* _check_duplicates: TRUE when it raises DuplicateEntryError.
CheckDuplicates(tbl, unique, data) ==
    \E i \in 1..Len(unique) :
        /\ unique[i] \in DOMAIN ToDict(data)
        /\ SelectEq(tbl, unique[i], data[unique[i]]) # {}

\* _validate_exactly_one_supabase_item: the error it raises, "ok" when none.
ValidateExactlyOne(response) ==
    IF Cardinality(response) # 1
    THEN IF Cardinality(response) = 0 THEN "NoEntryFoundError" ELSE "ValueError"
    ELSE "ok"

\* The populated unique fields of obj, in declaration order.
PopulatedUnique(unique, obj) == SelectSeq(unique, LAMBDA f : Populated(obj, f))

GetObjInfoLastField(tbl, unique, obj) ==
    LET ufs == PopulatedUnique(unique, obj) IN
    IF Len(ufs) = 0 THEN [err |-> "ValueError", key |-> None, row |-> NoRow]
    ELSE LET uf == ufs[Len(ufs)]
             response == SelectEq(tbl, uf, obj[uf])
             v == ValidateExactlyOne(response)
         IN  [err |-> v, key |-> uf,
              row |-> IF v = "ok" THEN CHOOSE r \in response : TRUE ELSE NoRow]

\* _get_obj_info: the error it raises, the field it filters on and the row.
GetObjInfo(tbl, unique, obj) ==
    LET ufs == PopulatedUnique(unique, obj) IN
    IF Len(ufs) = 0 THEN [err |-> "ValueError", key |-> None, row |-> NoRow]
    ELSE LET uf == ufs[1]
             response == SelectEq(tbl, uf, obj[uf])
             v == ValidateExactlyOne(response)
         IN  [err |-> v, key |-> uf,
              row |-> IF v = "ok" THEN CHOOSE r \in response : TRUE ELSE NoRow]

\* ------------------------------------------------------------ the call log

\* A completed call: its input, the key it filtered on, the error it raised
\* ("ok" when none), the kind of value it returned, the row it resolved or
\* returned or inserted, and the table of its entity as the call found it.
Call(op, arg, key, err, ret, row, pre) ==
    [op |-> op, arg |-> arg, key |-> key, err |-> err, ret |-> ret,
     row |-> row, pre |-> pre, status |-> NoStatus, update |-> NoRow,
     log0 |-> 0, n |-> 0, path |-> None, bucket0 |-> {}]

Raise(op, arg, key, err, pre) == Call(op, arg, key, err, "raise", NoRow, pre)

\* ------------------------------------------------------------ inputs

UserInputs == [user_id : UserIds \cup {None}, email : Emails \cup {None}]
NewUsers == {u \in UserInputs : u.user_id = None}

\* A message as a caller passes it to add_message.
NewMessages ==
    [message_id : {None, OwnId("m")}, user_id : {None, Id("u", 1)},
     timestamp : {NoTime}, message_body : {"hi"}]
MessageInputs ==
    [message_id : MessageIds \cup {None}, user_id : {None},
     timestamp : {NoTime}, message_body : {None}]
\* A message update that sets the body.
MessagePatches ==
    [message_id : {None}, user_id : {None}, timestamp : {NoTime},
     message_body : Bodies]

\* The path of a voice memo uploaded earlier.
SomePath == "memos/u1/1.ogg"

NewFiles ==
    [file_id : {None, OwnId("f")}, message_id : {Id("m", 1)},
     mime_type : {"audio/ogg"}, blob_path : {SomePath}]
FileInputs ==
    [file_id : FileIds \cup {None}, message_id : {None}, mime_type : {None},
     blob_path : {None}]

NewAddresses == [address_id : {None}, user_id : {None, Id("u", 1)}]
AddressInputs == [address_id : AddressIds \cup {None}, user_id : {None}]

NewDrafts ==
    [draft_id : {None}, user_id : UserIds, created_at : {NoTime},
     blob_path : {None}]
DraftInputs ==
    [draft_id : DraftIds \cup {None}, user_id : {None}, created_at : {NoTime},
     blob_path : {None}]

NewOrders ==
    [order_id : {None, OwnId("o")}, user_id : {None, Id("u", 1)},
     draft_id : {Id("d", 1)}, address_id : {Id("a", 1)},
     blob_path : {SomePath}]
OrderInputs ==
    [order_id : OrderIds \cup {None}, user_id : {None}, draft_id : {None},
     address_id : {None}, blob_path : {None}]

\* The message register_voice_message is given.
VoiceMessages ==
    [message_id : {Id("m", 1)}, user_id : {None, Id("u", 1)},
     timestamp : {NoTime}, message_body : {None}]

NewAttachments == [attachment_id : {None}, draft_id : {Id("d", 1)}]

\* ------------------------------------------------------------ Init

Init ==
    /\ users = {}
    /\ messages = {}
    /\ files = {}
    /\ addresses = {}
    /\ drafts = {}
    /\ orders = {}
    /\ attachments = {}
    /\ changelog = <<>>
    /\ system_messages = {}
    /\ bucket = {}
    /\ now = 1
    /\ seq = [t \in Tables |-> 0]
    /\ pc = "idle"
    /\ frame = NoFrame
    /\ last = Call("init", NoRow, None, "ok", "None", NoRow, {})

\* ------------------------------------------------------------ users

\* get_user
GetUser ==
    /\ pc = "idle"
    /\ \E data \in UserInputs :
        LET r == GetObjInfo(users, UserUnique, data) IN
        last' = IF r.err = "ok"
                THEN Call("get_user", data, r.key, "ok", "record", r.row, users)
                ELSE Raise("get_user", data, r.key, r.err, users)
    /\ UNCHANGED <<users, messages, files, addresses, drafts, orders,
                   attachments, changelog, system_messages, bucket, now, seq,
                   pc, frame>>

\* add_user
AddUser ==
    /\ pc = "idle"
    /\ \E user \in NewUsers :
        IF CheckDuplicates(users, UserUnique, user)
        THEN /\ last' = Raise("add_user", user, None, "DuplicateEntryError",
                              users)
             /\ UNCHANGED <<users, seq>>
        ELSE /\ Inserted < MaxRows
             /\ LET row == Materialize(UserFields, ToDict(user), "user_id",
                                       NextId("u", "users"), None)
                IN  /\ users' = users \cup {row}
                    /\ last' = Call("add_user", user, None, "ok", "record",
                                    row, users)
             /\ seq' = [seq EXCEPT !["users"] = @ + 1]
    /\ UNCHANGED <<messages, files, addresses, drafts, orders, attachments,
                   changelog, system_messages, bucket, now, pc, frame>>

\* add_changelog
AddChangelog(log, entry) == Append(log, entry)

\* The Changelog row update_user builds for one differing field.
ChangelogRow(ts, table, full, update, idField, field) ==
    [timestamp |-> ts, table_name |-> table, row_id |-> full[idField],
     column_name |-> field,
     column_type |-> IF Populated(update, field) THEN "str" ELSE "NoneType",
     old_value |-> full[field], new_value |-> update[field]]

NoFieldsUpdated == <<1, "No fields were updated">>
UserUpdated == <<0, "User updated successfully">>

UpdateUserBeginNoShortCut(user_data, user_update) ==
    LET r == GetObjInfo(users, UserUnique, user_data) IN
    IF r.err # "ok"
    THEN /\ last' = Raise("update_user", user_data, r.key, r.err, users)
         /\ UNCHANGED <<pc, frame>>
    ELSE /\ pc' = "update_user_write"
         /\ frame' = [user_data |-> user_data, user_update |-> user_update,
                      user_data_full |-> r.row, fields_updated |-> <<>>,
                      i |-> 1, timestamp_utc |-> now, log0 |-> Len(changelog),
                      pre |-> users]
         /\ UNCHANGED last

\* update_user, to the end of the diff.
UpdateUserBegin(user_data, user_update) ==
    LET r == GetObjInfo(users, UserUnique, user_data) IN
    IF r.err # "ok"
    THEN /\ last' = Raise("update_user", user_data, r.key, r.err, users)
         /\ UNCHANGED <<pc, frame>>
    ELSE LET fields_updated ==
                 FindDifferentFields(UserFields, r.row, user_update) IN
         IF Len(fields_updated) = 0
         THEN /\ last' = [Call("update_user", user_data, r.key, "ok",
                               "status", r.row, users)
                          EXCEPT !.status = NoFieldsUpdated,
                                 !.update = user_update,
                                 !.log0 = Len(changelog)]
              /\ UNCHANGED <<pc, frame>>
         ELSE /\ Inserted + Len(fields_updated) <= MaxRows
              /\ pc' = "update_user_log"
              /\ frame' = [user_data |-> user_data, user_update |-> user_update,
                           user_data_full |-> r.row,
                           fields_updated |-> fields_updated,
                           i |-> 1, timestamp_utc |-> now,
                           log0 |-> Len(changelog), pre |-> users]
              /\ UNCHANGED last

\* update_user is called.
UpdateUserCall ==
    /\ pc = "idle"
    /\ \E user_data \in UserInputs, user_update \in UserInputs :
        /\ user_update.user_id \in {None, user_data.user_id}
        /\ UpdateUserBegin(user_data, user_update)
    /\ UNCHANGED <<users, messages, files, addresses, drafts, orders,
                   attachments, changelog, system_messages, bucket, now, seq>>

UpdateUserLogSkipsLast ==
    /\ pc = "update_user_log"
    /\ changelog' = IF frame.i = Len(frame.fields_updated) THEN changelog
                    ELSE AddChangelog(changelog,
                           ChangelogRow(frame.timestamp_utc, "users",
                                        frame.user_data_full, frame.user_update,
                                        "user_id", frame.fields_updated[frame.i]))
    /\ seq' = [seq EXCEPT !["changelog"] = @ + 1]
    /\ frame' = [frame EXCEPT !.i = @ + 1]
    /\ pc' = IF frame.i = Len(frame.fields_updated)
             THEN "update_user_write" ELSE "update_user_log"
    /\ UNCHANGED <<users, messages, files, addresses, drafts, orders,
                   attachments, bucket, now, last, system_messages>>

\* update_user, one turn of the loop over fields_updated.
UpdateUserLog ==
    /\ pc = "update_user_log"
    /\ changelog' = AddChangelog(changelog,
           ChangelogRow(frame.timestamp_utc, "users", frame.user_data_full,
                        frame.user_update, "user_id",
                        frame.fields_updated[frame.i]))
    /\ seq' = [seq EXCEPT !["changelog"] = @ + 1]
    /\ frame' = [frame EXCEPT !.i = @ + 1]
    /\ pc' = IF frame.i = Len(frame.fields_updated)
             THEN "update_user_write" ELSE "update_user_log"
    /\ UNCHANGED <<users, messages, files, addresses, drafts, orders,
                   attachments, bucket, now, last, system_messages>>

\* update_user, the update of the users table and the return.
UpdateUserWrite ==
    /\ pc = "update_user_write"
    /\ users' = UpdateEq(users, ToDict(frame.user_update), "user_id",
                         frame.user_data_full.user_id)
    /\ last' = [Call("update_user", frame.user_data, "user_id", "ok",
                     "status", frame.user_data_full, frame.pre)
                EXCEPT !.status = UserUpdated,
                       !.update = frame.user_update, !.log0 = frame.log0]
    /\ pc' = "idle"
    /\ frame' = NoFrame
    /\ UNCHANGED <<messages, files, addresses, drafts, orders, attachments,
                   changelog, system_messages, bucket, now, seq>>

UserDeleted == <<0, "User deleted successfully">>

\* delete_user
DeleteUser ==
    /\ pc = "idle"
    /\ \E user \in UserInputs :
        LET r == GetObjInfo(users, UserUnique, user) IN
        IF r.err # "ok"
        THEN /\ last' = Raise("delete_user", user, r.key, r.err, users)
             /\ UNCHANGED users
        ELSE /\ users' = DeleteEq(users, "user_id", r.row.user_id)
             /\ last' = [Call("delete_user", user, r.key, "ok", "status",
                              r.row, users)
                         EXCEPT !.status = UserDeleted]
    /\ UNCHANGED <<messages, files, addresses, drafts, orders, attachments,
                   changelog, system_messages, bucket, now, seq, pc, frame>>

DeleteEntryFirstPopulated(tbl, unique, obj, deletion_key) ==
    LET ufs == PopulatedUnique(unique, obj)
        key == IF deletion_key # None THEN deletion_key
               ELSE IF Len(ufs) > 0 THEN ufs[1] ELSE unique[1]
    IN  IF deletion_key = None /\ ~Populated(obj, key)
        THEN [err |-> "ValueError", key |-> key, tbl |-> tbl, n |-> 0]
        ELSE LET hit == SelectEq(tbl, key, obj[key]) IN
             IF Cardinality(hit) = 0
             THEN [err |-> "NoEntryFoundError", key |-> key, tbl |-> tbl,
                   n |-> 0]
             ELSE [err |-> "ok", key |-> key,
                   tbl |-> DeleteEq(tbl, key, obj[key]),
                   n |-> Cardinality(hit)]

\* _delete_entry: the error it raises, the key it filters on, the table it
\* leaves and the number of rows the delete returned.
DeleteEntry(tbl, unique, obj, deletion_key) ==
    LET key == IF deletion_key = None THEN unique[1] ELSE deletion_key IN
    IF deletion_key = None /\ ~Populated(obj, key)
    THEN [err |-> "ValueError", key |-> key, tbl |-> tbl, n |-> 0]
    ELSE LET hit == SelectEq(tbl, key, obj[key]) IN
         IF Cardinality(hit) = 0
         THEN [err |-> "NoEntryFoundError", key |-> key, tbl |-> tbl, n |-> 0]
         ELSE [err |-> "ok", key |-> key,
               tbl |-> DeleteEq(tbl, key, obj[key]), n |-> Cardinality(hit)]

\* _delete_entry on a User, without a deletion_key and with "email" as one.
DeleteEntryUser ==
    /\ pc = "idle"
    /\ \E obj \in UserInputs, deletion_key \in {None, "email"} :
        LET r == DeleteEntry(users, UserUnique, obj, deletion_key) IN
        /\ users' = r.tbl
        /\ last' = [(IF r.err = "ok"
                     THEN Call("_delete_entry", obj, r.key, "ok", "count",
                               NoRow, users)
                     ELSE Raise("_delete_entry", obj, r.key, r.err, users))
                    EXCEPT !.n = r.n,
                           !.update = [deletion_key |-> deletion_key]]
    /\ UNCHANGED <<messages, files, addresses, drafts, orders, attachments,
                   changelog, system_messages, bucket, now, seq, pc, frame>>

\* ------------------------------------------------------------ messages

\* get_message
GetMessage ==
    /\ pc = "idle"
    /\ \E message \in MessageInputs :
        LET r == GetObjInfo(messages, MessageUnique, message) IN
        last' = IF r.err = "ok"
                THEN Call("get_message", message, r.key, "ok", "record", r.row,
                          messages)
                ELSE Raise("get_message", message, r.key, r.err, messages)
    /\ UNCHANGED <<users, messages, files, addresses, drafts, orders,
                   attachments, changelog, system_messages, bucket, now, seq,
                   pc, frame>>

\* add_message
AddMessage ==
    /\ pc = "idle"
    /\ \E msg_data \in NewMessages :
        IF CheckDuplicates(messages, MessageUnique, msg_data)
        THEN /\ last' = Raise("add_message", msg_data, None,
                              "DuplicateEntryError", messages)
             /\ UNCHANGED <<messages, seq>>
        ELSE /\ Inserted < MaxRows
             /\ LET row == Materialize(MessageFields, ToDict(msg_data),
                                       "message_id", NextId("m", "messages"),
                                       "timestamp")
                IN  /\ messages' = messages \cup {row}
                    /\ last' = Call("add_message", msg_data, None, "ok",
                                    "record", row, messages)
             /\ seq' = [seq EXCEPT !["messages"] = @ + 1]
    /\ UNCHANGED <<users, files, addresses, drafts, orders, attachments,
                   changelog, system_messages, bucket, now, pc, frame>>

MessageUpdated == <<0, "Message updated successfully">>

\* update_message
UpdateMessage ==
    /\ pc = "idle"
    /\ \E msg_data \in MessageInputs, msg_update \in MessagePatches \cup messages :
        LET r == GetObjInfo(messages, MessageUnique, msg_data) IN
        /\ msg_update.message_id \in {None, msg_data.message_id}
        /\ IF r.err # "ok"
           THEN /\ last' = Raise("update_message", msg_data, r.key, r.err,
                                 messages)
                /\ UNCHANGED messages
           ELSE /\ messages' = UpdateEq(messages, ToDict(msg_update),
                                        "message_id", r.row.message_id)
                /\ last' = [Call("update_message", msg_data, r.key, "ok",
                                 "status", r.row, messages)
                            EXCEPT !.status = MessageUpdated,
                                   !.update = msg_update,
                                   !.log0 = Len(changelog)]
    /\ UNCHANGED <<users, files, addresses, drafts, orders, attachments,
                   changelog, system_messages, bucket, now, seq, pc, frame>>

\* ------------------------------------------------------------ files

\* get_file
GetFile ==
    /\ pc = "idle"
    /\ \E data \in FileInputs :
        LET r == GetObjInfo(files, FileUnique, data) IN
        last' = IF r.err = "ok"
                THEN Call("get_file", data, r.key, "ok", "record", r.row, files)
                ELSE Raise("get_file", data, r.key, r.err, files)
    /\ UNCHANGED <<users, messages, files, addresses, drafts, orders,
                   attachments, changelog, system_messages, bucket, now, seq,
                   pc, frame>>

\* add_file: the error it raises, the table it leaves and the row it returns.
AddFileResult(file) ==
    IF CheckDuplicates(files, FileUnique, file)
    THEN [err |-> "DuplicateEntryError", tbl |-> files, row |-> NoRow]
    ELSE LET row == Materialize(FileFields, ToDict(file), "file_id",
                                NextId("f", "files"), None)
         IN  [err |-> "ok", tbl |-> files \cup {row}, row |-> row]

\* add_file
AddFile ==
    /\ pc = "idle"
    /\ \E file \in NewFiles :
        LET r == AddFileResult(file) IN
        /\ r.err = "ok" => Inserted < MaxRows
        /\ files' = r.tbl
        /\ seq' = IF r.err = "ok" THEN [seq EXCEPT !["files"] = @ + 1] ELSE seq
        /\ last' = IF r.err = "ok"
                   THEN Call("add_file", file, None, "ok", "record", r.row,
                             files)
                   ELSE Raise("add_file", file, None, r.err, files)
    /\ UNCHANGED <<users, messages, addresses, drafts, orders, attachments,
                   changelog, system_messages, bucket, now, pc, frame>>

\* ------------------------------------------------------------ addresses

\* add_address
AddAddress ==
    /\ pc = "idle"
    /\ \E address \in NewAddresses :
        IF address.user_id = None
        THEN /\ last' = Raise("add_address", address, None, "ValueError",
                              addresses)
             /\ UNCHANGED <<addresses, seq>>
        ELSE /\ Inserted < MaxRows
             /\ LET row == Materialize(AddressFields, ToDict(address),
                                       "address_id", NextId("a", "addresses"),
                                       None)
                IN  /\ addresses' = addresses \cup {row}
                    /\ last' = Call("add_address", address, None, "ok",
                                    "record", row, addresses)
             /\ seq' = [seq EXCEPT !["addresses"] = @ + 1]
    /\ UNCHANGED <<users, messages, files, drafts, orders, attachments,
                   changelog, system_messages, bucket, now, pc, frame>>

AddressDeleted == <<0, "Address deleted successfully">>

\* delete_address
DeleteAddress ==
    /\ pc = "idle"
    /\ \E address \in AddressInputs :
        IF address.address_id = None
        THEN /\ last' = Raise("delete_address", address, "address_id",
                              "ValueError", addresses)
             /\ UNCHANGED addresses
        ELSE /\ addresses' = DeleteEq(addresses, "address_id",
                                      address.address_id)
             /\ last' = [Call("delete_address", address, "address_id", "ok",
                              "status", NoRow, addresses)
                         EXCEPT !.status = AddressDeleted]
    /\ UNCHANGED <<users, messages, files, drafts, orders, attachments,
                   changelog, system_messages, bucket, now, seq, pc, frame>>

\* ------------------------------------------------------------ drafts

\* get_draft
GetDraft ==
    /\ pc = "idle"
    /\ \E draft \in DraftInputs :
        LET r == GetObjInfo(drafts, DraftUnique, draft) IN
        last' = IF r.err = "ok"
                THEN Call("get_draft", draft, r.key, "ok", "record", r.row,
                          drafts)
                ELSE Raise("get_draft", draft, r.key, r.err, drafts)
    /\ UNCHANGED <<users, messages, files, addresses, drafts, orders,
                   attachments, changelog, system_messages, bucket, now, seq,
                   pc, frame>>

\* add_draft: the row the insert returns.
AddDraftRow(draft) ==
    Materialize(DraftFields, ToDict(draft), "draft_id", NextId("d", "drafts"),
                "created_at")

\* add_draft
AddDraft ==
    /\ pc = "idle"
    /\ Inserted < MaxRows
    /\ \E draft \in NewDrafts :
        /\ drafts' = drafts \cup {AddDraftRow(draft)}
        /\ last' = Call("add_draft", draft, None, "ok", "record",
                        AddDraftRow(draft), drafts)
    /\ seq' = [seq EXCEPT !["drafts"] = @ + 1]
    /\ UNCHANGED <<users, messages, files, addresses, orders, attachments,
                   changelog, system_messages, bucket, now, pc, frame>>

\* ------------------------------------------------------------ attachments

\* add_attachment
AddAttachment ==
    /\ pc = "idle"
    /\ Inserted < MaxRows
    /\ \E attachment \in NewAttachments :
        LET row == Materialize(AttachmentFields, ToDict(attachment),
                               "attachment_id", NextId("t", "attachments"),
                               None)
        IN  /\ attachments' = attachments \cup {row}
            /\ last' = Call("add_attachment", attachment, None, "ok",
                            "record", row, attachments)
    /\ seq' = [seq EXCEPT !["attachments"] = @ + 1]
    /\ UNCHANGED <<users, messages, files, addresses, drafts, orders,
                   changelog, system_messages, bucket, now, pc, frame>>

\* ------------------------------------------------------------ orders

\* The fields add_order requires.
OrderRequired == <<"user_id", "draft_id", "address_id", "blob_path">>

OrderAdded == <<0, "Order added successfully">>

\* add_order
AddOrder ==
    /\ pc = "idle"
    /\ \E order \in NewOrders :
        IF \E i \in 1..Len(OrderRequired) : ~Populated(order, OrderRequired[i])
        THEN /\ last' = Raise("add_order", order, None, "ValueError", orders)
             /\ UNCHANGED <<orders, seq>>
        ELSE IF CheckDuplicates(orders, OrderUnique, order)
        THEN /\ last' = Raise("add_order", order, None, "DuplicateEntryError",
                              orders)
             /\ UNCHANGED <<orders, seq>>
        ELSE /\ Inserted < MaxRows
             /\ LET row == Materialize(OrderFields, ToDict(order), "order_id",
                                       NextId("o", "orders"), None)
                IN  /\ orders' = orders \cup {row}
                    /\ last' = [Call("add_order", order, None, "ok", "status",
                                     row, orders)
                                EXCEPT !.status = OrderAdded]
             /\ seq' = [seq EXCEPT !["orders"] = @ + 1]
    /\ UNCHANGED <<users, messages, files, addresses, drafts, attachments,
                   changelog, system_messages, bucket, now, pc, frame>>

\* get_order: it resolves the row and returns nothing.
GetOrder ==
    /\ pc = "idle"
    /\ \E order \in OrderInputs :
        LET r == GetObjInfo(orders, OrderUnique, order) IN
        last' = IF r.err = "ok"
                THEN Call("get_order", order, r.key, "ok", "None", r.row, orders)
                ELSE Raise("get_order", order, r.key, r.err, orders)
    /\ UNCHANGED <<users, messages, files, addresses, drafts, orders,
                   attachments, changelog, system_messages, bucket, now, seq,
                   pc, frame>>

\* ------------------------------------------------------------ bucket

SuffixAlwaysOgg(mime_type) ==
    IF mime_type \in {"audio/ogg", "application/pdf"} THEN ".ogg" ELSE None

\* The suffix upload_file gives a mime type, None when it raises ValueError.
Suffix(mime_type) ==
    IF mime_type = "audio/ogg" THEN ".ogg"
    ELSE IF mime_type = "application/pdf" THEN ".pdf"
    ELSE None

\* The clock read to the second, as strftime('%Y-%m-%d_%H-%M-%S') prints it.
Strftime(t) == ToString(t)

\* f"memos/{user_id}/{timestamp}{suffix}"
BucketPath(user_id, t, suffix) ==
    "memos/" \o user_id \o "/" \o Strftime(t) \o suffix

\* storage.from_(bucket).upload(file, path, file_options): the bucket with
\* the blob at the path, in place of the blob that was there.
Upload(bkt, filebytes, path, content_type) ==
    {b \in bkt : b.path # path}
        \cup {[path |-> path, bytes |-> filebytes,
               content_type |-> content_type]}

\* storage.from_(bucket).download(path)
Download(bkt, path) == (CHOOSE b \in bkt : b.path = path).bytes

\* upload_file: the error it raises, the path it returns and the bucket it
\* leaves. The store takes the upload to a path in use (overwrite) or refuses
\* it.
UploadFileResult(filebytes, user_id, mime_type, overwrite) ==
    IF Suffix(mime_type) = None
    THEN [err |-> "ValueError", path |-> None, bkt |-> bucket]
    ELSE LET bucket_path == BucketPath(user_id, now, Suffix(mime_type)) IN
         IF (\E b \in bucket : b.path = bucket_path) /\ ~overwrite
         THEN [err |-> "StorageApiError", path |-> None, bkt |-> bucket]
         ELSE [err |-> "ok", path |-> bucket_path,
               bkt |-> Upload(bucket, filebytes, bucket_path, mime_type)]

\* upload_file
UploadFile ==
    /\ pc = "idle"
    /\ \E filebytes \in {"B1"}, user_id \in UserIds, mime_type \in MimeTypes,
          overwrite \in BOOLEAN :
        LET r == UploadFileResult(filebytes, user_id, mime_type, overwrite)
            arg == [filebytes |-> filebytes, user_id |-> user_id,
                    mime_type |-> mime_type]
        IN  /\ r.err = "ok" => Inserted < MaxRows
            /\ bucket' = r.bkt
            /\ seq' = IF r.err = "ok"
                      THEN [seq EXCEPT !["objects"] = @ + 1] ELSE seq
            /\ last' = [(IF r.err = "ok"
                         THEN Call("upload_file", arg, None, "ok", "path",
                                   NoRow, bucket)
                         ELSE Raise("upload_file", arg, None, r.err, bucket))
                        EXCEPT !.path = r.path]
    /\ UNCHANGED <<users, messages, files, addresses, drafts, orders,
                   attachments, changelog, system_messages, now, pc, frame>>

VoiceFileUnlinked(message, mime_type, bucket_path) ==
    [file_id |-> None, message_id |-> None, mime_type |-> mime_type,
     blob_path |-> bucket_path]

\* The File register_voice_message builds.
VoiceFile(message, mime_type, bucket_path) ==
    [file_id |-> None, message_id |-> message.message_id,
     mime_type |-> mime_type, blob_path |-> bucket_path]

\* register_voice_message
RegisterVoiceMessage ==
    /\ pc = "idle"
    /\ \E filebytes \in Bytes, message \in VoiceMessages, overwrite \in BOOLEAN :
        LET arg == [filebytes |-> filebytes, message |-> message] IN
        IF message.user_id = None
        THEN /\ last' = Raise("register_voice_message", arg, None,
                              "ValueError", files)
             /\ UNCHANGED <<bucket, files, seq>>
        ELSE LET up == UploadFileResult(filebytes, message.user_id,
                                        "audio/ogg", overwrite) IN
             IF up.err # "ok"
             THEN /\ last' = Raise("register_voice_message", arg, None,
                                   up.err, files)
                  /\ UNCHANGED <<bucket, files, seq>>
             ELSE LET r == AddFileResult(
                               VoiceFile(message, "audio/ogg", up.path)) IN
                  /\ Inserted + 1 < MaxRows
                  /\ bucket' = up.bkt
                  /\ files' = r.tbl
                  /\ seq' = [seq EXCEPT !["objects"] = @ + 1,
                                        !["files"] = @ + 1]
                  /\ last' = [(IF r.err = "ok"
                               THEN Call("register_voice_message", arg, None,
                                         "ok", "None", r.row, files)
                               ELSE Raise("register_voice_message", arg, None,
                                          r.err, files))
                              EXCEPT !.path = up.path, !.bucket0 = bucket]
    /\ UNCHANGED <<users, messages, addresses, drafts, orders, attachments,
                   changelog, system_messages, now, pc, frame>>

\* ------------------------------------------------------------ last rows

\* The orders the server may return rows in under .order(field, desc).
Ordered(rows, field, desc) ==
    {s \in [1..Cardinality(rows) -> rows] :
        /\ \A i, j \in DOMAIN s : i # j => s[i] # s[j]
        /\ \A i, j \in DOMAIN s :
              i < j => IF desc THEN s[i][field] >= s[j][field]
                       ELSE s[i][field] <= s[j][field]}

FirstDraft(draft_list) == draft_list[1]

\* drafts[-1]
LastDraft(draft_list) == draft_list[Len(draft_list)]

\* The tables the last-row getters read.
Store == <<users, messages, drafts>>

\* get_last_draft, over get_user_drafts
GetLastDraft ==
    /\ pc = "idle"
    /\ \E user \in UserInputs :
        LET r == GetObjInfo(users, UserUnique, user) IN
        IF r.err # "ok"
        THEN last' = Raise("get_last_draft", user, r.key, r.err, Store)
        ELSE \E draft_list \in Ordered(SelectEq(drafts, "user_id",
                                                r.row.user_id),
                                       "created_at", FALSE) :
                last' = IF Len(draft_list) = 0
                        THEN Call("get_last_draft", user, r.key, "ok", "None",
                                  NoRow, Store)
                        ELSE Call("get_last_draft", user, r.key, "ok",
                                  "record", LastDraft(draft_list), Store)
    /\ UNCHANGED <<users, messages, files, addresses, drafts, orders,
                   attachments, changelog, system_messages, bucket, now, seq,
                   pc, frame>>

\* get_last_user_message
GetLastUserMessage ==
    /\ pc = "idle"
    /\ \E user \in UserInputs :
        LET r == GetObjInfo(users, UserUnique, user) IN
        IF r.err # "ok"
        THEN last' = Raise("get_last_user_message", user, r.key, r.err,
                           Store)
        ELSE \E data \in Ordered(SelectEq(messages, "user_id", r.row.user_id),
                                 "timestamp", TRUE) :
                last' = IF Len(data) = 0
                        THEN Raise("get_last_user_message", user, "user_id",
                                   "NoEntryFoundError", Store)
                        ELSE Call("get_last_user_message", user, r.key, "ok",
                                  "record", data[1], Store)
    /\ UNCHANGED <<users, messages, files, addresses, drafts, orders,
                   attachments, changelog, system_messages, bucket, now, seq,
                   pc, frame>>

\* ------------------------------------------------------------ registration

\* add_message: the error it raises, the table it leaves and the row it
\* returns.
AddMessageResult(msg_data) ==
    IF CheckDuplicates(messages, MessageUnique, msg_data)
    THEN [err |-> "DuplicateEntryError", tbl |-> messages, row |-> NoRow]
    ELSE LET row == Materialize(MessageFields, ToDict(msg_data),
                                "message_id", NextId("m", "messages"),
                                "timestamp")
         IN  [err |-> "ok", tbl |-> messages \cup {row}, row |-> row]

\* The user register_message is given, and the draft register_draft is given.
RegisteringUsers == [user_id : {None, Id("u", 1)}, email : {None}]
RegisteredDrafts ==
    [draft_id : {None}, user_id : {None, Id("u", 1)}, created_at : {NoTime},
     blob_path : {None}]

\* register_message
RegisterMessage ==
    /\ pc = "idle"
    /\ \E user \in RegisteringUsers, message_body \in Bodies :
        LET arg == [user |-> user, message_body |-> message_body] IN
        IF user.user_id = None
        THEN /\ last' = Raise("register_message", arg, None, "ValueError",
                              messages)
             /\ UNCHANGED <<messages, seq>>
        ELSE LET message == [message_id |-> None, user_id |-> user.user_id,
                             timestamp |-> NoTime,
                             message_body |-> message_body]
                 r == AddMessageResult(message)
             IN  /\ r.err = "ok" => Inserted < MaxRows
                 /\ messages' = r.tbl
                 /\ seq' = IF r.err = "ok"
                           THEN [seq EXCEPT !["messages"] = @ + 1] ELSE seq
                 /\ last' = IF r.err = "ok"
                            THEN Call("register_message", arg, None, "ok",
                                      "record", r.row, messages)
                            ELSE Raise("register_message", arg, None, r.err,
                                       messages)
    /\ UNCHANGED <<users, files, addresses, drafts, orders, attachments,
                   changelog, system_messages, bucket, now, pc, frame>>

RegisterDraftUploadsFirst ==
    /\ pc = "idle"
    /\ \E draft \in RegisteredDrafts, pdf_bytes \in Bytes,
          overwrite \in BOOLEAN :
        LET arg == [draft |-> draft, pdf_bytes |-> pdf_bytes]
            up == UploadFileResult(pdf_bytes, draft.user_id,
                                   "application/pdf", overwrite)
        IN  /\ Inserted + 1 < MaxRows
            /\ up.err = "ok"
            /\ bucket' = up.bkt
            /\ IF draft.user_id = None
               THEN /\ last' = Raise("register_draft", arg, None,
                                     "ValueError", drafts)
                    /\ seq' = [seq EXCEPT !["objects"] = @ + 1]
                    /\ UNCHANGED drafts
               ELSE LET row == AddDraftRow([draft EXCEPT
                                               !.blob_path = up.path]) IN
                    /\ drafts' = drafts \cup {row}
                    /\ seq' = [seq EXCEPT !["objects"] = @ + 1,
                                          !["drafts"] = @ + 1]
                    /\ last' = [Call("register_draft", arg, None, "ok",
                                     "record", row, drafts)
                                EXCEPT !.path = up.path, !.bucket0 = bucket]
    /\ UNCHANGED <<users, messages, files, addresses, orders, attachments,
                   changelog, system_messages, now, pc, frame>>

\* register_draft
RegisterDraft ==
    /\ pc = "idle"
    /\ \E draft \in RegisteredDrafts, pdf_bytes \in Bytes,
          overwrite \in BOOLEAN :
        LET arg == [draft |-> draft, pdf_bytes |-> pdf_bytes] IN
        IF draft.user_id = None
        THEN /\ last' = Raise("register_draft", arg, None, "ValueError",
                              drafts)
             /\ UNCHANGED <<bucket, drafts, seq>>
        ELSE LET up == UploadFileResult(pdf_bytes, draft.user_id,
                                        "application/pdf", overwrite) IN
             IF up.err # "ok"
             THEN /\ last' = Raise("register_draft", arg, None, up.err,
                                   drafts)
                  /\ UNCHANGED <<bucket, drafts, seq>>
             ELSE LET row == AddDraftRow([draft EXCEPT
                                             !.blob_path = up.path]) IN
                  /\ Inserted + 1 < MaxRows
                  /\ bucket' = up.bkt
                  /\ drafts' = drafts \cup {row}
                  /\ seq' = [seq EXCEPT !["objects"] = @ + 1,
                                        !["drafts"] = @ + 1]
                  /\ last' = [Call("register_draft", arg, None, "ok",
                                   "record", row, drafts)
                              EXCEPT !.path = up.path, !.bucket0 = bucket]
    /\ UNCHANGED <<users, messages, files, addresses, orders, attachments,
                   changelog, system_messages, now, pc, frame>>

\* ------------------------------------------------------------ system messages

\* The columns of the system_messages table and of the spreadsheet.
RemoteColumns == {"full_message_name", "text", "note"}
SheetColumns == {"full_message_name", "text", "comment"}

MessageNames == {"", "welcome", "test"}

\* The rows get_message_spreadsheet may return.
SheetRows ==
    [full_message_name : MessageNames, text : {"hi", "bye"}, comment : {"c"}]
Sheets == (SUBSET SheetRows) \ {{}}

\* {"full_message_name": "test"}, as the table stores it.
Sentinel ==
    [c \in RemoteColumns |-> IF c = "full_message_name" THEN "test" ELSE None]

\* data[0].keys()
ColumnNames(data) == DOMAIN (CHOOSE r \in data : TRUE)

\* .delete().neq(f, v): the rows it leaves. A null never compares unequal.
DeleteNeq(tbl, f, v) == {r \in tbl : ~(r[f] # None /\ r[f] # v)}

\* system_message_df[[col for col in column_names if col in df.columns]]
ProjectSheet(df, column_names) ==
    {[c \in column_names \cap SheetColumns |-> row[c]] : row \in df}

\* .insert(insert_values): the table with the rows added, the columns the
\* values lack null.
InsertValues(tbl, insert_values) ==
    tbl \cup {[c \in RemoteColumns |->
                 IF c \in DOMAIN v THEN v[c] ELSE None] : v \in insert_values}

\* update_system_messages
UpdateSystemMessages ==
    /\ pc = "idle"
    /\ \E system_message_df \in Sheets :
        LET probed == system_messages \cup {Sentinel}
            column_names == ColumnNames(probed)
            cleared == DeleteNeq(probed, "full_message_name", "")
            insert_values == ProjectSheet(system_message_df, column_names)
        IN  /\ system_messages' = InsertValues(cleared, insert_values)
            /\ last' = Call("update_system_messages",
                            [source |-> system_message_df], None, "ok",
                            "None", NoRow, system_messages)
    /\ UNCHANGED <<users, messages, files, addresses, drafts, orders,
                   attachments, changelog, bucket, now, seq, pc, frame>>

\* get_system_message
GetSystemMessage ==
    /\ pc = "idle"
    /\ \E msg_name \in MessageNames, col_name \in {"text"} :
        LET data == SelectEq(system_messages, "full_message_name", msg_name)
            arg == [msg_name |-> msg_name, col_name |-> col_name]
        IN  last' = IF data = {}
                    THEN Raise("get_system_message", arg, col_name,
                               "NoEntryFoundError", system_messages)
                    ELSE IF Cardinality(data) > 1
                    THEN Raise("get_system_message", arg, col_name,
                               "ValueError", system_messages)
                    ELSE Call("get_system_message", arg, col_name, "ok",
                              "value", CHOOSE r \in data : TRUE,
                              system_messages)
    /\ UNCHANGED <<users, messages, files, addresses, drafts, orders,
                   attachments, changelog, system_messages, bucket, now, seq,
                   pc, frame>>

\* The passing of a second on the clock the client and the server read.
Tick ==
    /\ pc = "idle"
    /\ now < MaxClock
    /\ now' = now + 1
    /\ UNCHANGED <<users, messages, files, addresses, drafts, orders,
                   attachments, changelog, system_messages, bucket, seq, pc,
                   frame, last>>

\* ------------------------------------------------------------ specifications

NextUpdate ==
    \/ AddUser
    \/ AddMessage
    \/ UpdateUserCall
    \/ UpdateUserLog
    \/ UpdateUserWrite
    \/ UpdateMessage

\* The users and messages tables under add and update calls.
SpecUpdate == Init /\ [][NextUpdate]_vars

NextLookup ==
    \/ AddUser
    \/ AddMessage
    \/ GetUser
    \/ GetMessage
    \/ UpdateUserCall
    \/ UpdateUserLog
    \/ UpdateUserWrite

\* The users and messages tables under add, update and get calls.
SpecLookup == Init /\ [][NextLookup]_vars

NextBlob ==
    \/ UploadFile
    \/ RegisterVoiceMessage
    \/ Tick

\* The bucket and the files table under uploads.
SpecBlob == Init /\ [][NextBlob]_vars

NextLast ==
    \/ AddUser
    \/ AddDraft
    \/ AddMessage
    \/ GetLastDraft
    \/ GetLastUserMessage
    \/ Tick

\* The drafts and messages of users as the clock advances.
SpecLast == Init /\ [][NextLast]_vars

NextRegister ==
    \/ RegisterMessage
    \/ RegisterDraft
    \/ RegisterVoiceMessage
    \/ Tick

\* The tables and the bucket under the composite registrations.
SpecRegister == Init /\ [][NextRegister]_vars

NextUnique ==
    \/ AddUser
    \/ AddMessage
    \/ AddFile
    \/ GetUser
    \/ GetMessage
    \/ GetFile

\* The users, messages and files tables under adds issued one at a time.
SpecUnique == Init /\ [][NextUnique]_vars

NextSystem ==
    \/ UpdateSystemMessages
    \/ GetSystemMessage

\* The system_messages table under refreshes from the spreadsheet.
SpecSystem == Init /\ [][NextSystem]_vars

NextAdd ==
    \/ AddUser
    \/ AddMessage
    \/ AddFile
    \/ AddAddress
    \/ AddDraft
    \/ AddOrder
    \/ AddAttachment
    \/ GetUser
    \/ GetMessage
    \/ GetFile
    \/ GetDraft
    \/ GetOrder

\* Every table under its add and get calls.
SpecAdd == Init /\ [][NextAdd]_vars

NextDelete ==
    \/ AddUser
    \/ AddAddress
    \/ GetUser
    \/ UpdateUserCall
    \/ UpdateUserLog
    \/ UpdateUserWrite
    \/ DeleteUser
    \/ DeleteEntryUser
    \/ DeleteAddress

\* The users and addresses tables under add, update, get and delete calls.
SpecDelete == Init /\ [][NextDelete]_vars

\* ------------------------------------------------------------ update

\* The fields of the update record that differ from the stored record.
Differing(fields, c) == FindDifferentFields(fields, c.row, c.update)

UpdateDone(c, op) == c.op = op /\ c.err = "ok"

\* The changelog row the update contract asks for, for one differing field.
Logged(e, table, idField, full, update, f) ==
    /\ e.table_name = table
    /\ e.row_id = full[idField]
    /\ e.column_name = f
    /\ e.old_value = full[f]
    /\ e.new_value = update[f]

\* The n rows after the first log0 rows of the changelog are those of fs.
LoggedFrom(log0, n, fs, full, update) ==
    /\ Len(changelog) >= log0 + n
    /\ \A i \in 1..n :
        Logged(changelog[log0 + i], "users", "user_id", full, update, fs[i])

\* C3 as stated: an update_user or update_message whose update record equals
\* the stored record writes nothing and returns "No fields were updated".
C3_AnyUpdateNoOp ==
    ((UpdateDone(last, "update_user") \/ UpdateDone(last, "update_message"))
        /\ last.update = last.row)
    => last.status = NoFieldsUpdated

\* C3, amended: update_user with an update record equal to the stored record
\* issues no update of the users table and no changelog insert, and returns
\* (1, "No fields were updated"), which a completed write never returns; no
\* update_user reaches its changelog loop or its write with nothing to change.
C3_UpdateUserNoOp ==
    /\ (UpdateDone(last, "update_user") /\ last.update = last.row)
        => /\ last.status = NoFieldsUpdated
           /\ last.status # UserUpdated
           /\ pc = "idle" => Len(changelog) = last.log0
           /\ pc = "idle" => last.row \in users
    /\ (UpdateDone(last, "update_user") /\ last.status = UserUpdated)
        => last.update # last.row
    /\ pc \in {"update_user_log", "update_user_write"}
        => frame.user_update # frame.user_data_full

\* C3 witness: update_user returned "No fields were updated" in a run whose
\* changelog is not empty.
C3_Witness ==
    /\ UpdateDone(last, "update_user")
    /\ last.update = last.row
    /\ last.status = NoFieldsUpdated
    /\ Len(changelog) >= 1

\* C4 as stated: an update_user or update_message with N >= 1 differing
\* fields has appended exactly N changelog rows when it returns.
C4_AnyUpdateLogs ==
    ((UpdateDone(last, "update_user") \/ UpdateDone(last, "update_message"))
        /\ pc = "idle")
    => Len(changelog) = last.log0
         + Len(Differing(IF last.op = "update_user" THEN UserFields
                         ELSE MessageFields, last))

\* C4, amended: update_user with N >= 1 differing fields appends exactly N
\* changelog rows, one per differing field, each with the table name, the
\* row identifier, the column name, the stored value and the new value; all N
\* are in the changelog when the update of the users table is issued, and the
\* users table is not written while they are being inserted.
C4_UpdateUserLogs ==
    /\ pc = "update_user_log"
        => /\ Len(changelog) = frame.log0 + frame.i - 1
           /\ frame.user_data_full \in users
    /\ pc = "update_user_write"
        => LET fs == FindDifferentFields(UserFields, frame.user_data_full,
                                         frame.user_update)
           IN  /\ Len(fs) >= 1
               /\ Len(changelog) = frame.log0 + Len(fs)
               /\ LoggedFrom(frame.log0, Len(fs), fs, frame.user_data_full,
                             frame.user_update)
               /\ frame.user_data_full \in users
    /\ (UpdateDone(last, "update_user") /\ last.status = UserUpdated)
        => LET fs == Differing(UserFields, last)
           IN  /\ Len(fs) >= 1
               /\ pc = "idle" => Len(changelog) = last.log0 + Len(fs)
               /\ LoggedFrom(last.log0, Len(fs), fs, last.row, last.update)

\* C4 witness: update_user changed two fields of a stored user and returned.
C4_Witness ==
    /\ UpdateDone(last, "update_user")
    /\ last.status = UserUpdated
    /\ Len(Differing(UserFields, last)) = 2
    /\ last.row \notin users

\* ------------------------------------------------------------ add and get

GetOps == {"get_user", "get_message", "get_file", "get_draft", "get_order"}
CheckedAddOps == {"add_user", "add_message", "add_file"}
UncheckedAddOps == {"add_address", "add_draft", "add_attachment"}
AddOps == CheckedAddOps \cup UncheckedAddOps \cup {"add_order"}

\* The declared unique fields of the entity a call is about.
UniqueOf(op) ==
    CASE op \in {"get_user", "add_user", "delete_user", "_delete_entry"}
            -> UserUnique
      [] op \in {"get_message", "add_message"} -> MessageUnique
      [] op \in {"get_file", "add_file"} -> FileUnique
      [] op \in {"get_draft", "add_draft"} -> DraftUnique
      [] op \in {"get_order", "add_order"} -> OrderUnique
      [] op \in {"add_address", "delete_address"} -> AddressUnique
      [] op = "add_attachment" -> AttachmentUnique

\* The table of the entity a call is about, as it is now.
TableOf(op) ==
    CASE op \in {"get_user", "add_user", "delete_user", "_delete_entry"}
            -> users
      [] op \in {"get_message", "add_message"} -> messages
      [] op \in {"get_file", "add_file"} -> files
      [] op \in {"get_draft", "add_draft"} -> drafts
      [] op \in {"get_order", "add_order"} -> orders
      [] op \in {"add_address", "delete_address"} -> addresses
      [] op = "add_attachment" -> attachments

HasUnique(unique, obj) == \E i \in 1..Len(unique) : obj[unique[i]] # None

\* The first populated unique field, in declaration order.
FirstPopulated(unique, obj) ==
    unique[CHOOSE i \in 1..Len(unique) :
              /\ obj[unique[i]] # None
              /\ \A j \in 1..(i - 1) : obj[unique[j]] = None]

\* The rows of tbl whose field f has the value obj has.
Matching(tbl, f, obj) == {r \in tbl : r[f] = obj[f]}

\* A populated unique field of obj occurs in tbl.
Occurs(tbl, unique, obj) ==
    \E i \in 1..Len(unique) :
        obj[unique[i]] # None /\ Matching(tbl, unique[i], obj) # {}

\* C1: a get_<entity> on an entity with a populated unique field raises
\* NoEntryFoundError when no row matches the first populated unique field,
\* ValueError when several do, and returns the row when exactly one does.
C1_GetByCount ==
    (last.op \in GetOps /\ HasUnique(UniqueOf(last.op), last.arg))
    => LET m == Matching(last.pre, FirstPopulated(UniqueOf(last.op), last.arg),
                         last.arg)
       IN  /\ Cardinality(m) = 0 => last.err = "NoEntryFoundError"
           /\ Cardinality(m) > 1 => last.err = "ValueError"
           /\ Cardinality(m) = 1
                => (last.err = "ok" /\ last.ret = "record" /\ last.row \in m)

\* One row was inserted, and the call returned it with its identifier.
InsertedOne(c) ==
    /\ c.row \notin c.pre
    /\ TableOf(c.op) = c.pre \cup {c.row}
    /\ c.row[UniqueOf(c.op)[1]] # None

\* C2 as stated: every add_<entity> raises DuplicateEntryError exactly when a
\* populated unique field of its input occurs in the table, then leaves the
\* table as it was, and otherwise inserts one row and returns the record with
\* its identifier.
C2_AnyAdd ==
    last.op \in AddOps
    => /\ last.err = "DuplicateEntryError"
            <=> Occurs(last.pre, UniqueOf(last.op), last.arg)
       /\ last.err = "DuplicateEntryError" => TableOf(last.op) = last.pre
       /\ last.err = "ok" => (InsertedOne(last) /\ last.ret = "record")

\* C2, amended: add_user, add_message and add_file raise DuplicateEntryError
\* exactly when a populated unique field of the input occurs in the table,
\* leaving the table as it was, and otherwise insert one row and return the
\* record with its identifier. add_order raises ValueError when a required
\* field is missing, else DuplicateEntryError on the same condition, else
\* inserts one row and returns (0, "Order added successfully"), not a record.
\* add_address, add_draft and add_attachment check nothing for duplicates.
C2_AddChecked ==
    /\ last.op \in CheckedAddOps
        => /\ last.err \in {"ok", "DuplicateEntryError"}
           /\ last.err = "DuplicateEntryError"
                <=> Occurs(last.pre, UniqueOf(last.op), last.arg)
           /\ last.err = "DuplicateEntryError" => TableOf(last.op) = last.pre
           /\ last.err = "ok" => (InsertedOne(last) /\ last.ret = "record")
    /\ last.op = "add_order"
        => LET missing == \E i \in 1..Len(OrderRequired) :
                              last.arg[OrderRequired[i]] = None
           IN  /\ last.err = "ValueError" <=> missing
               /\ last.err = "DuplicateEntryError"
                    <=> (~missing /\ Occurs(last.pre, OrderUnique, last.arg))
               /\ last.err # "ok" => orders = last.pre
               /\ last.err = "ok"
                    => (InsertedOne(last) /\ last.ret = "status"
                        /\ last.status = OrderAdded)
    /\ last.op \in UncheckedAddOps
        => /\ last.err # "DuplicateEntryError"
           /\ last.err = "ok" => (InsertedOne(last) /\ last.ret = "record")
           /\ last.err # "ok" => TableOf(last.op) = last.pre

\* C2 witness: add_user raised DuplicateEntryError on an email a stored row
\* has, with two users stored.
C2_Witness ==
    /\ last.op = "add_user"
    /\ last.err = "DuplicateEntryError"
    /\ last.arg.email # None
    /\ Cardinality(users) = 2

\* C6 as stated: the record get_<entity> returns agrees with the input on
\* every field populated in the input.
C6_EveryPopulatedField ==
    (last.op \in GetOps /\ last.err = "ok" /\ last.ret = "record")
    => \A f \in DOMAIN last.arg :
          Populated(last.arg, f) => last.row[f] = last.arg[f]

\* C6, amended: when exactly one row matches the lookup key (the first
\* populated unique field of the input), get_<entity> returns that stored row
\* as it is stored: it agrees with the input on the lookup key, and no other
\* field of the input is compared.
C6_LookupKeyField ==
    (last.op \in GetOps /\ HasUnique(UniqueOf(last.op), last.arg))
    => LET f == FirstPopulated(UniqueOf(last.op), last.arg)
           m == Matching(TableOf(last.op), f, last.arg)
       IN  Cardinality(m) = 1
           => /\ last.err = "ok"
              /\ last.row \in m
              /\ last.row[f] = last.arg[f]
              /\ last.op # "get_order" => last.ret = "record"

\* C6 witness: get_user, given a user_id and the email of another stored
\* row, returned the row of the user_id, whose email differs from the input's.
C6_Witness ==
    /\ last.op = "get_user"
    /\ last.err = "ok"
    /\ last.arg.user_id # None
    /\ last.arg.email # None
    /\ last.row.email # last.arg.email
    /\ \E r \in users : r.email = last.arg.email

\* ------------------------------------------------------------ delete

DeleteOps == {"_delete_entry", "delete_user", "delete_address"}

\* C5: a delete raises NoEntryFoundError and leaves the table as it was when
\* no row has the value of the key it filters on, and otherwise removes the
\* matching rows; it never reports success having removed no row.
C5_DeleteRemoves ==
    (last.op \in DeleteOps /\ last.key # None /\ last.arg[last.key] # None)
    => LET m == Matching(last.pre, last.key, last.arg) IN
       /\ m = {} => (last.err = "NoEntryFoundError"
                     /\ TableOf(last.op) = last.pre)
       /\ last.err = "ok" => TableOf(last.op) # last.pre

\* C7 as stated: _delete_entry without a deletion key filters on the first
\* populated unique field, so it does not fail when the first declared unique
\* field is null and a later one is populated.
C7_DeleteByFirstPopulated ==
    (last.op = "_delete_entry" /\ last.update.deletion_key = None
        /\ HasUnique(UserUnique, last.arg))
    => /\ last.key = FirstPopulated(UserUnique, last.arg)
       /\ last.err # "ValueError"

\* C7, amended: get_user and delete_user filter on the first populated unique
\* field in declaration order; _delete_entry without a deletion key filters
\* on the first declared unique field and raises ValueError, deleting
\* nothing, when that field is null, whatever later unique field is
\* populated; with a deletion key it filters on that key.
C7_KeySelection ==
    /\ (last.op \in {"get_user", "delete_user"}
            /\ HasUnique(UserUnique, last.arg))
        => /\ last.key = FirstPopulated(UserUnique, last.arg)
           /\ last.err = "ok" => last.row[last.key] = last.arg[last.key]
           /\ (last.err = "ok" /\ last.op = "delete_user")
                => users = {r \in last.pre : r.user_id # last.row.user_id}
    /\ (last.op = "_delete_entry" /\ last.update.deletion_key = None)
        => /\ last.key = UserUnique[1]
           /\ last.err = "ValueError" <=> last.arg[UserUnique[1]] = None
           /\ last.err = "ValueError" => users = last.pre
    /\ (last.op = "_delete_entry" /\ last.update.deletion_key # None)
        => /\ last.key = last.update.deletion_key
           /\ last.err # "ValueError"
    /\ (last.op = "_delete_entry" /\ last.err = "ok")
        => /\ users = {r \in last.pre : r[last.key] # last.arg[last.key]}
           /\ last.n = Cardinality(last.pre) - Cardinality(users)
           /\ last.n >= 1

\* C7 witness: _delete_entry without a deletion key raised ValueError on a
\* user with no user_id whose email a stored row has.
C7_Witness ==
    /\ last.op = "_delete_entry"
    /\ last.update.deletion_key = None
    /\ last.arg.user_id = None
    /\ last.arg.email # None
    /\ last.err = "ValueError"
    /\ \E r \in users : r.email = last.arg.email

\* ------------------------------------------------------------ uploads

\* C8: an upload_file that returns, for audio/ogg, returns a path under
\* memos/<user_id>/ that ends in .ogg, and for application/pdf one that ends
\* in .pdf, and the bucket then holds exactly one blob at that path, with
\* that content type; for any other mime type the call raises ValueError and
\* leaves the bucket as it found it.
C8_UploadFile ==
    last.op = "upload_file" =>
        LET a == last.arg IN
        IF a.mime_type \in {"audio/ogg", "application/pdf"}
        THEN last.err = "ok" =>
                /\ \E t \in 1..MaxClock :
                      last.path = "memos/" \o a.user_id \o "/" \o ToString(t)
                                  \o (IF a.mime_type = "audio/ogg"
                                      THEN ".ogg" ELSE ".pdf")
                /\ Cardinality({b \in bucket : b.path = last.path}) = 1
                /\ \A b \in bucket :
                      b.path = last.path => b.content_type = a.mime_type
        ELSE last.err = "ValueError" /\ bucket = last.pre

\* C8 witness: a pdf was uploaded to a bucket that held a blob already.
C8_Witness ==
    /\ last.op = "upload_file"
    /\ last.err = "ok"
    /\ last.arg.mime_type = "application/pdf"
    /\ last.pre # {}

\* C9: after a register_voice_message of bytes B that returns, the files
\* table has exactly one row it did not have, linked to the message's id, of
\* mime type audio/ogg, and the blob at the row's blob_path is B; an earlier
\* upload to the same path does not change this.
C9_VoiceRoundTrip ==
    (last.op = "register_voice_message" /\ last.err = "ok") =>
        LET new == files \ last.pre IN
        /\ last.pre \subseteq files
        /\ Cardinality(new) = 1
        /\ \A f \in new :
              /\ f.message_id = last.arg.message.message_id
              /\ f.mime_type = "audio/ogg"
              /\ \E b \in bucket : b.path = f.blob_path
              /\ Download(bucket, f.blob_path) = last.arg.filebytes

\* C9 witness: a voice message was registered in the second in which the
\* same user had uploaded other bytes to the same path.
C9_Witness ==
    /\ last.op = "register_voice_message"
    /\ last.err = "ok"
    /\ \E b \in last.bucket0 :
          b.path = last.path /\ b.bytes # last.arg.filebytes

\* ------------------------------------------------------------ last rows

\* C10: for a user the lookup resolves to one row, get_last_draft returns a
\* draft of the user with the greatest created_at, or None when the user has
\* no draft; get_last_user_message returns a message of the user with the
\* greatest timestamp, or raises NoEntryFoundError when the user has no
\* message; neither changes the tables.
C10_LastRows ==
    (/\ last.op \in {"get_last_draft", "get_last_user_message"}
     /\ HasUnique(UserUnique, last.arg)
     /\ Cardinality(Matching(users, FirstPopulated(UserUnique, last.arg),
                             last.arg)) = 1) =>
        LET user == CHOOSE u \in Matching(users,
                        FirstPopulated(UserUnique, last.arg), last.arg) : TRUE
            ofDrafts == last.op = "get_last_draft"
            tbl == IF ofDrafts THEN drafts ELSE messages
            field == IF ofDrafts THEN "created_at" ELSE "timestamp"
            mine == {r \in tbl : r.user_id = user.user_id}
        IN  /\ last.pre = <<users, messages, drafts>>
            /\ mine = {} =>
                  IF ofDrafts THEN last.err = "ok" /\ last.ret = "None"
                  ELSE last.err = "NoEntryFoundError"
            /\ mine # {} =>
                  /\ last.err = "ok"
                  /\ last.ret = "record"
                  /\ last.row \in mine
                  /\ \A r \in mine : r[field] <= last.row[field]

\* C10 witness: get_last_draft returned a draft of a user who has an earlier
\* draft as well.
C10_Witness ==
    /\ last.op = "get_last_draft"
    /\ last.ret = "record"
    /\ \E d \in drafts :
          d.user_id = last.row.user_id /\ d.created_at < last.row.created_at

\* ------------------------------------------------------------ system messages

\* C11: after update_system_messages the system_messages table holds exactly
\* the rows of the spreadsheet projected onto the columns the table and the
\* spreadsheet share: no row it held before and no sentinel row is left.
C11_ExactlySource ==
    (last.op = "update_system_messages" /\ last.err = "ok") =>
        {[c \in RemoteColumns \cap SheetColumns |-> r[c]] :
            r \in system_messages}
        = {[c \in RemoteColumns \cap SheetColumns |-> row[c]] :
            row \in last.arg.source}

\* ------------------------------------------------------------ registration

RegisterOps == {"register_message", "register_draft", "register_voice_message"}

\* The user identifier a registration was given.
GivenUserId(c) ==
    IF c.op = "register_message" THEN c.arg.user.user_id
    ELSE IF c.op = "register_draft" THEN c.arg.draft.user_id
    ELSE c.arg.message.user_id

\* C12: register_message with a user without user_id, register_draft with a
\* draft without user_id and register_voice_message with a message without
\* user_id raise ValueError, and the step uploads no blob and inserts no row:
\* the bucket and every table are as before.
C12_RejectBeforeEffect ==
    [][(last'.op \in RegisterOps /\ GivenUserId(last') = None)
        => /\ last'.err = "ValueError"
           /\ UNCHANGED <<users, messages, files, addresses, drafts, orders,
                          attachments, changelog, system_messages, bucket,
                          seq>>]_vars

\* C12 witness: register_draft raised ValueError on a draft without user_id
\* with a blob in the bucket and a draft in the table.
C12_Witness ==
    /\ last.op = "register_draft"
    /\ last.err = "ValueError"
    /\ last.arg.draft.user_id = None
    /\ bucket # {}
    /\ drafts # {}

\* ------------------------------------------------------------ uniqueness

\* No two rows of tbl share a non-null value of a unique field.
UniqueIn(tbl, unique) ==
    \A r1, r2 \in tbl : \A i \in 1..Len(unique) :
        (r1 # r2 /\ r1[unique[i]] # None) => r1[unique[i]] # r2[unique[i]]

\* C13: under add_user, add_message and add_file calls issued one at a time
\* from tables without duplicates, no two rows of users, of messages or of
\* files share a non-null value of a declared unique field, and a get_user,
\* get_message or get_file on a populated unique field never raises the
\* ValueError of several matching rows.
C13_UniqueRows ==
    /\ UniqueIn(users, UserUnique)
    /\ UniqueIn(messages, MessageUnique)
    /\ UniqueIn(files, FileUnique)
    /\ (last.op \in {"get_user", "get_message", "get_file"}
            /\ HasUnique(UniqueOf(last.op), last.arg))
        => last.err # "ValueError"

\* C13 witness: with two users stored, each with an email, get_user by email
\* returned a row.
C13_Witness ==
    /\ Cardinality(users) = 2
    /\ \A u \in users : u.email # None
    /\ last.op = "get_user"
    /\ last.err = "ok"
    /\ last.key = "email"

====
